---- MODULE Spec2Model ----
(***************************************************************************)
(* Verification model of the OpenAQ acquisition-and-load pipeline:         *)
(*   - OpenAQClient.request_api          (rate-limit aware HTTP client)    *)
(*   - AreaDownloader.fetch_sensor_measurements   (pagination loop)        *)
(*   - AreaDownloader.download_sensors_data / download_data_with_retries / *)
(*     download_period_from_area         (retry orchestration, run logs)   *)
(*   - BigQueryClient.generate_merge_query / upsert_data  (staged merge)   *)
(* Each component has its own specification over the shared variables.     *)
(***************************************************************************)
EXTENDS Integers, Sequences, FiniteSets, TLC

VARIABLES
    \* ---- OpenAQClient (openaq.py:52-171)
    ratelimit_used,        \* self.ratelimit_used
    ratelimit_remaining,   \* self.ratelimit_remaining
    ratelimit_reset,       \* self.ratelimit_reset
    call_state,            \* rate-limit triple on entry of the last request_api call
    call_trace,            \* effects of the last request_api call, in order
    call_result,           \* how the last request_api call ended
    call_headers,          \* <<X-Ratelimit-* headers>> of its 2xx response, if any
    \* ---- AreaDownloader.fetch_sensor_measurements (openaq.py:384-584)
    fetch_pc,              \* "idle" | "loop" | "returned" | "raised"
    fetch_sensor,          \* sensor_id argument
    page,                  \* page
    found_value,           \* found_value (-1 until the first response)
    all_results,           \* all_results
    requests,              \* params passed to client.request_api, in order
    fetch_return,          \* the returned all_measurements
    srv_found,             \* meta.found the server reports for this request
    srv_pages,             \* number of records the server holds on each page
    datetime_from,         \* datetime_from of the top-level download_data_with_retries call
    datetime_to,           \* datetime_to of the top-level download_data_with_retries call
    fetch_args,            \* datetime_from, datetime_to of this fetch, and the retries of its caller
    \* ---- staging bucket and wall clock
    bucket,                \* blob name -> rows of the staged parquet file
    clock,                 \* pd.Timestamp.now
    \* ---- BigQueryClient.upsert_data (gcp.py:413-516)
    dest,                  \* rows of the target table
    staging_exists,        \* whether the <target>_staged table exists
    upsert_result,         \* how the last upsert_data call ended
    last_staged,           \* <<staged rows>> of the last merge that completed
    staged_columns,        \* columns of the dataframe last given to save_dataframe_to_gcs
    \* ---- AreaDownloader retry orchestration (openaq.py:586-969)
    orch_pc,               \* "idle" | "download" | "return" | "period" | "done" |
                           \* "raised" | "fetch_raised"
    sensors_arg,           \* sensors_id of the top-level call
    max_retries,           \* max_retries of the top-level call
    stack,                 \* active download_data_with_retries invocations
    ret,                   \* value returned by the invocation that just ended
    period_logs,           \* <<period_logs>> returned by download_period_from_area
    log_files,             \* documents written by save_logs
    attempts,              \* per depth, the fetches made: sensor and outcome
    \* ---- helpers.save_logs (helpers.py:306-379)
    logs_arg,              \* the value passed to save_logs
    safe_logs,             \* <<_safe_serialize(logs)>> once computed
    save_result,           \* "none" | "written" | "TypeError"
    \* ---- runs sharing the staging bucket and the target table
    run_pc,                \* per run: position in fetch / upsert_data
    staging_table,         \* rows of the <target>_staged table and their blobs
    run_io,                \* per run: blobs its load read, blobs its clear deleted
    merged                 \* blobs whose rows a MERGE has read

clientVars == <<ratelimit_used, ratelimit_remaining, ratelimit_reset,
                call_state, call_trace, call_result, call_headers>>

fetchVars == <<fetch_pc, fetch_sensor, page, found_value, all_results, requests,
               fetch_return, srv_found, srv_pages, datetime_from, datetime_to,
               fetch_args>>

stageVars == <<bucket, clock>>

runVars == <<run_pc, staging_table, run_io, merged>>

mergeVars == <<dest, staging_exists, upsert_result, last_staged, staged_columns,
               runVars>>

logVars == <<logs_arg, safe_logs, save_result>>

retryVars == <<orch_pc, sensors_arg, max_retries, stack, ret, period_logs,
               log_files, attempts, logVars>>

notClientVars == <<fetchVars, stageVars, mergeVars, retryVars>>

vars == <<clientVars, fetchVars, stageVars, mergeVars, retryVars>>

\* ------------------------------------------------------------------------
\* Generic helpers

Range(s) == {s[i] : i \in 1..Len(s)}

RECURSIVE SumSeq(_)
SumSeq(s) == IF s = << >> THEN 0 ELSE s[1] + SumSeq(Tail(s))

\* Sequences over S of length 0..n
SeqUpTo(S, n) == UNION {[1..k -> S] : k \in 0..n}

\* Column values are positive integers; NULL is the SQL NULL / pandas NaT
NULL == 0

\* ------------------------------------------------------------------------
\* OpenAQClient

LOW_WATERMARK == 5          \* should_wait: ratelimit_remaining < 5
FULL_QUOTA == 60            \* request_api: assumed fresh quota after a wait
COOLDOWN == 60              \* request_api: time.sleep(60) on HTTP 429
UNKNOWN == -1               \* __init__: rate limits not yet known

\* A rate-limit header of a response: << >> when missing, <<n>> when present
NoHeader == << >>

\* Values the server may send in X-Ratelimit-* headers
HeaderUsed == {NoHeader, <<1>>, <<57>>}
HeaderRemaining == {NoHeader, <<3>>, <<4>>, <<5>>, <<10>>}
HeaderReset == {NoHeader, <<7>>}

\* A parse that would ignore the header
HeaderInt_ignored(h) == 0

\* int(response.headers.get(name, 0))
HeaderInt(h) == IF h = NoHeader THEN 0 ELSE h[1]

\* Outcomes of requests.get + raise_for_status + response.json
Outcomes == {"ok", "HTTPError429", "HTTPError500", "ConnectionError", "BadBody"}

should_wait_wrong(remaining) == remaining < LOW_WATERMARK
should_wait(remaining) == remaining >= 0 /\ remaining < LOW_WATERMARK

\* An overwrite that would read the headers of every response, error or not
Overwrites_any_response(outcome) == outcome # "ConnectionError"

\* The header overwrite follows raise_for_status(): it runs for a 2xx response
\* only, before the body is parsed
Overwrites(outcome) == outcome \in {"ok", "BadBody"}

\* A pre-emptive wait that would leave the rate-limit triple as it was
AfterWait_unchanged(state) == state

\* Rate-limit triple after the pre-emptive wait of request_api
AfterWait(state) ==
    IF should_wait(state.remaining)
    THEN [used |-> 0, remaining |-> FULL_QUOTA, reset |-> FULL_QUOTA]
    ELSE state

\* Effects of the pre-emptive wait: one sleep of ratelimit_reset + 1 seconds
WaitTrace(state) ==
    IF should_wait(state.remaining)
    THEN << [op |-> "sleep", secs |-> state.reset + 1] >>
    ELSE << >>

\* request_api as it would be if it sent the request again after the cooldown
request_api_retrying(outcome, hu, hr, hs) ==
    LET entry == [used |-> ratelimit_used, remaining |-> ratelimit_remaining,
                  reset |-> ratelimit_reset]
        ready == AfterWait(entry)
        http  == << [op |-> "http", used |-> ready.used,
                     remaining |-> ready.remaining, reset |-> ready.reset] >>
        parsed == [used |-> HeaderInt(hu), remaining |-> HeaderInt(hr),
                   reset |-> HeaderInt(hs)]
        final == IF Overwrites(outcome) THEN parsed ELSE ready
        cool  == IF outcome = "HTTPError429"
                 THEN << [op |-> "sleep", secs |-> COOLDOWN] >> \o http ELSE << >>
    IN  /\ call_state' = entry
        /\ call_trace' = WaitTrace(entry) \o http \o cool
        /\ call_result' = outcome
        /\ call_headers' = IF outcome \in {"ok", "BadBody"} THEN <<hu, hr, hs>> ELSE << >>
        /\ ratelimit_used' = final.used
        /\ ratelimit_remaining' = final.remaining
        /\ ratelimit_reset' = final.reset

\* One whole call of request_api against a server answering with `outcome`
\* and the given rate-limit headers.
request_api(outcome, hu, hr, hs) ==
    LET entry == [used |-> ratelimit_used, remaining |-> ratelimit_remaining,
                  reset |-> ratelimit_reset]
        ready == AfterWait(entry)
        http  == << [op |-> "http", used |-> ready.used,
                     remaining |-> ready.remaining, reset |-> ready.reset] >>
        parsed == [used |-> HeaderInt(hu), remaining |-> HeaderInt(hr),
                   reset |-> HeaderInt(hs)]
        final == IF Overwrites(outcome) THEN parsed ELSE ready
        cool  == IF outcome = "HTTPError429"
                 THEN << [op |-> "sleep", secs |-> COOLDOWN] >> ELSE << >>
    IN  /\ call_state' = entry
        /\ call_trace' = WaitTrace(entry) \o http \o cool
        /\ call_result' = outcome
        /\ call_headers' = IF outcome \in {"ok", "BadBody"} THEN <<hu, hr, hs>> ELSE << >>
        /\ ratelimit_used' = final.used
        /\ ratelimit_remaining' = final.remaining
        /\ ratelimit_reset' = final.reset

RequestApi ==
    /\ \E outcome \in Outcomes, hu \in HeaderUsed, hr \in HeaderRemaining,
          hs \in HeaderReset :
          request_api(outcome, hu, hr, hs)
    /\ UNCHANGED notClientVars

\* clear_ratelimits
ClearRatelimits ==
    /\ ratelimit_used' = UNKNOWN
    /\ ratelimit_remaining' = UNKNOWN
    /\ ratelimit_reset' = UNKNOWN
    /\ UNCHANGED <<call_state, call_trace, call_result, call_headers>>
    /\ UNCHANGED notClientVars

ClientInit ==
    /\ ratelimit_used = UNKNOWN
    /\ ratelimit_remaining = UNKNOWN
    /\ ratelimit_reset = UNKNOWN
    /\ call_state = [used |-> UNKNOWN, remaining |-> UNKNOWN, reset |-> UNKNOWN]
    /\ call_trace = << >>
    /\ call_result = "none"
    /\ call_headers = << >>

ClientNext == RequestApi \/ ClearRatelimits

\* ------------------------------------------------------------------------
\* Staging: OpenAQMeasurementsTable.save_dataframe_to_gcs

NumSensors == 3             \* sensors are 1..NumSensors
Sensors == 1..NumSensors
MaxClock == 2               \* the wall clock takes the values 1..MaxClock

\* f"openaq/measurements/{run_id}_sensor_{sensor_id}.raw.parquet"
BlobName(run_id, sensor_id) == <<run_id, sensor_id>>

\* cleaned_df.reindex(columns=schema_fields): a column of the schema that the
\* dataframe does not have is added with missing values in every row
reindex(row, col) == IF col \in DOMAIN row THEN row[col] ELSE NULL

\* clean_dataframe: every row gets the three audit columns set to now, then
\* the columns are reindexed to the schema
clean_dataframe(df, now) ==
    [i \in 1..Len(df) |->
        [sensor_id |-> reindex(df[i], "sensor_id"),
         period_datetimeTo_utc |-> reindex(df[i], "period_datetimeTo_utc"),
         value |-> reindex(df[i], "value"),
         ingested_at |-> now, updated_at |-> now, refreshed_at |-> now]]

\* An upload that would add the rows to the blob of that name
stream_dataframe_to_gcs_appending(bkt, df, blob_name) ==
    [n \in (DOMAIN bkt) \cup {blob_name} |->
        IF n = blob_name
        THEN (IF n \in DOMAIN bkt THEN bkt[n] ELSE << >>) \o df
        ELSE bkt[n]]

\* stream_dataframe_to_gcs: blob.upload_from_file replaces the blob of that name
stream_dataframe_to_gcs(bkt, df, blob_name) ==
    [n \in (DOMAIN bkt) \cup {blob_name} |-> IF n = blob_name THEN df ELSE bkt[n]]

\* A save_dataframe_to_gcs that would upload nothing
save_dataframe_to_gcs_nowhere(bkt, df, blob_name, now) == bkt

save_dataframe_to_gcs(bkt, df, blob_name, now) ==
    stream_dataframe_to_gcs(bkt, clean_dataframe(df, now), blob_name)

EmptyBucket == [n \in {} |-> << >>]

StageInit ==
    /\ bucket = EmptyBucket
    /\ clock = 1

\* ------------------------------------------------------------------------
\* AreaDownloader.fetch_sensor_measurements

MaxFound == 3               \* the server reports found in 0..MaxFound
MaxPlan == 3                \* the server holds at most MaxPlan pages
MaxPageSize == 2            \* each holding 0..MaxPageSize records
MaxPage == 4                \* pages requested in one fetch that the model follows
PAGE_LIMIT == 1000          \* "limit": 1000

MaxFetchRetries == 2        \* a sensor that raised is fetched again up to this depth
Datetimes == {1, 2}         \* the datetime strings a period is drawn from
FetchRun == 1               \* the run_id the fetch is called with

\* Records of page p of the server's result set: hourly periods numbered in
\* result-set order; pages past the last one are empty.
ServerPage(pages, p) ==
    IF p > Len(pages) THEN << >>
    ELSE LET before == SumSeq(SubSeq(pages, 1, p - 1))
         IN  [i \in 1..pages[p] |->
                 [period_datetimeTo_utc |-> before + i, value |-> 1]]

\* res["results"]["sensor_id"] = sensor_id
WithSensor(results, sensor_id) ==
    [i \in 1..Len(results) |->
        [sensor_id |-> sensor_id,
         period_datetimeTo_utc |-> results[i].period_datetimeTo_utc,
         value |-> results[i].value]]

\* standardized_measurements_sorting: sort_values by period, then sensor_id
RowBefore(a, b) ==
    LET pa == a.period_datetimeTo_utc
        pb == b.period_datetimeTo_utc
    IN  \/ pa # NULL /\ pb = NULL                 \* NaT sorts last
        \/ pa # NULL /\ pb # NULL /\ pa < pb
        \/ pa = pb /\ a.sensor_id <= b.sensor_id

RECURSIVE InsertSorted(_, _)
InsertSorted(row, sorted) ==
    IF sorted = << >> THEN <<row>>
    ELSE IF RowBefore(sorted[1], row)
         THEN <<sorted[1]>> \o InsertSorted(row, Tail(sorted))
         ELSE <<row>> \o sorted

RECURSIVE standardized_measurements_sorting(_)
standardized_measurements_sorting(df) ==
    IF df = << >> THEN << >>
    ELSE InsertSorted(df[Len(df)],
                      standardized_measurements_sorting(SubSeq(df, 1, Len(df) - 1)))

\* 5. EXIT: if len(all_results) >= found_value: break
AllRetrieved_strict(collected, found) == Len(collected) > found
\* An exit test that would also stop on a page leaving nothing collected
AllRetrieved_or_none(collected, found) == Len(collected) >= found \/ collected = << >>
AllRetrieved(collected, found) == Len(collected) >= found

\* Lines 540-584: after the loop, a non-empty result is sorted and streamed to
\* the staging bucket (which may raise); the dataframe is returned.
FetchFinish(collected, stage_ok) ==
    IF Len(collected) > 0
    THEN LET all_measurements == standardized_measurements_sorting(collected)
         IN  IF stage_ok
             THEN /\ bucket' = save_dataframe_to_gcs(bucket, all_measurements,
                                   BlobName(FetchRun, fetch_sensor), clock)
                  /\ fetch_return' = all_measurements
                  /\ fetch_pc' = "returned"
             ELSE /\ fetch_pc' = "raised"
                  /\ UNCHANGED <<bucket, fetch_return>>
    ELSE /\ fetch_return' = << >>
         /\ fetch_pc' = "returned"
         /\ UNCHANGED bucket

\* The params of one page request (lines 446-451)
RequestParams(args, p) ==
    [datetime_from |-> args.datetime_from, datetime_to |-> args.datetime_to,
     limit |-> PAGE_LIMIT, page |-> p]

\* Arguments download_data_with_retries gives to the pass it starts
\* (lines 721-729) and to the recursive call after a failed pass (lines 771-781)
first_pass_arguments(from, to) ==
    [datetime_from |-> from, datetime_to |-> to, retries |-> 0]

retry_arguments_swapped(args) ==
    [datetime_from |-> args.datetime_to, datetime_to |-> args.datetime_from,
     retries |-> args.retries + 1]

retry_arguments(args) ==
    [datetime_from |-> args.datetime_from, datetime_to |-> args.datetime_to,
     retries |-> args.retries + 1]

\* Call of fetch_sensor_measurements: lines 436-439.  The first call is for
\* any sensor; a call after a fetch that raised fetches the same sensor again
\* one retry deeper, a call after a fetch that returned belongs to a new
\* top-level call.
StartFetch ==
    /\ fetch_pc # "loop"
    /\ fetch_pc = "raised" => fetch_args.retries < MaxFetchRetries
    /\ fetch_args' = IF fetch_pc = "raised" THEN retry_arguments(fetch_args)
                     ELSE first_pass_arguments(datetime_from, datetime_to)
    /\ \E s \in (IF fetch_pc = "idle" THEN Sensors ELSE {fetch_sensor}) :
            fetch_sensor' = s
    /\ fetch_pc' = "loop"
    /\ page' = 1
    /\ found_value' = -1
    /\ all_results' = << >>
    /\ requests' = << >>
    /\ fetch_return' = << >>
    /\ UNCHANGED <<srv_found, srv_pages, datetime_from, datetime_to>>
    /\ UNCHANGED <<clientVars, stageVars, mergeVars, retryVars>>

\* One iteration of the while loop whose request raises: the exception leaves
\* fetch_sensor_measurements (lines 445-453).
FetchPageRaises ==
    /\ fetch_pc = "loop"
    /\ page <= MaxPage
    /\ requests' = Append(requests, RequestParams(fetch_args, page))
    /\ fetch_pc' = "raised"
    /\ UNCHANGED <<fetch_sensor, page, found_value, all_results, fetch_return,
                   srv_found, srv_pages, clientVars, stageVars, mergeVars, retryVars>>
    /\ UNCHANGED <<datetime_from, datetime_to, fetch_args>>

\* One iteration of the while loop whose request succeeds (lines 440-538),
\* followed by lines 540-584 when it breaks out of the loop.
FetchPage ==
    /\ fetch_pc = "loop"
    /\ page <= MaxPage
    /\ requests' = Append(requests, RequestParams(fetch_args, page))
    /\ LET found == IF found_value = -1 THEN srv_found ELSE found_value
           results == WithSensor(ServerPage(srv_pages, page), fetch_sensor)
           collected == IF Len(results) = 0 THEN all_results
                        ELSE all_results \o results
       IN  /\ found_value' = found
           /\ IF found_value = -1 /\ found = 0 /\ page = 1
              THEN \* 3.1 EXIT: found == 0 for the first request
                   /\ UNCHANGED <<all_results, page>>
                   /\ \E stage_ok \in BOOLEAN : FetchFinish(all_results, stage_ok)
              ELSE /\ all_results' = collected
                   /\ IF AllRetrieved(collected, found)
                      THEN /\ UNCHANGED page
                           /\ \E stage_ok \in BOOLEAN : FetchFinish(collected, stage_ok)
                      ELSE /\ page' = page + 1
                           /\ UNCHANGED <<fetch_pc, fetch_return, bucket>>
    /\ UNCHANGED <<fetch_sensor, srv_found, srv_pages, clock, clientVars, mergeVars,
                   retryVars>>
    /\ UNCHANGED <<datetime_from, datetime_to, fetch_args>>

FetchIdle ==
    /\ fetch_pc = "idle"
    /\ fetch_sensor = 1
    /\ page = 1
    /\ found_value = -1
    /\ all_results = << >>
    /\ requests = << >>
    /\ fetch_return = << >>
    /\ fetch_args = first_pass_arguments(datetime_from, datetime_to)

\* The period of the top-level call
PeriodIdle ==
    /\ datetime_from = 1
    /\ datetime_to = 2

PeriodAny ==
    /\ datetime_from \in Datetimes
    /\ datetime_to \in Datetimes

\* The server's result set for the requested sensor and period
ServerIdle ==
    /\ srv_found = 0
    /\ srv_pages = << >>

ServerAny ==
    /\ srv_found \in 0..MaxFound
    /\ srv_pages \in SeqUpTo(0..MaxPageSize, MaxPlan)

Tick ==
    /\ clock < MaxClock
    /\ clock' = clock + 1
    /\ UNCHANGED <<bucket, clientVars, fetchVars, mergeVars, retryVars>>

FetchNext == StartFetch \/ FetchPage \/ FetchPageRaises \/ Tick

\* ------------------------------------------------------------------------
\* BigQueryClient.generate_merge_query / upsert_data

MaxRows == 2                \* rows of one staged dataframe
MaxDest == 2                \* rows of the target table the model follows
Periods == {NULL, 1, 2}       \* period_datetimeTo_utc values of API records
Values == {1, 2}            \* measurement values of API records

\* OPENAQ_MEASUREMENTS_TABLE_CONFIG["schema"], one data column standing for all
all_columns ==
    {"sensor_id", "period_datetimeTo_utc", "value",
     "ingested_at", "updated_at", "refreshed_at"}

\* save_from_staging_bucket: merge_keys=["sensor_id", "period_datetimeTo_utc"]
merge_keys == {"sensor_id", "period_datetimeTo_utc"}

meta_columns == {"ingested_at", "updated_at", "refreshed_at"}

immutable_columns == merge_keys \cup {"ingested_at"}

data_columns == {col \in all_columns : col \notin merge_keys /\ col \notin meta_columns}

\* SQL "a = b": true only when both operands are non-NULL and equal
SqlEq(a, b) == a # NULL /\ b # NULL /\ a = b

\* ON target.pk = staged.pk AND ...
join_condition(target, staged) ==
    \A pk \in merge_keys : SqlEq(target[pk], staged[pk])

\* target.col IS DISTINCT FROM staged.col OR ...   (NULL-safe inequality)
change_condition(target, staged) ==
    \E col \in data_columns : target[col] # staged[col]

\* UPDATE SET target.col = staged.col for every column but keys and ingested_at
full_update_data_only(target, staged) ==
    [col \in all_columns |->
        IF col \in data_columns THEN staged[col] ELSE target[col]]
full_update(target, staged) ==
    [col \in all_columns |->
        IF col \in immutable_columns THEN target[col] ELSE staged[col]]

\* A refresh that would touch updated_at as well
refreshed_update_touching(target, staged) ==
    [target EXCEPT !["refreshed_at"] = staged["refreshed_at"],
                   !["updated_at"] = staged["updated_at"]]

\* UPDATE SET target.refreshed_at = staged.refreshed_at
refreshed_update(target, staged) ==
    [target EXCEPT !["refreshed_at"] = staged["refreshed_at"]]

\* Staged rows the ON condition pairs with a target row
Matches(target_row, staged) ==
    {j \in 1..Len(staged) : join_condition(target_row, staged[j])}

\* BigQuery rejects a MERGE in which a target row matches several source rows
MergeRaises(target, staged) ==
    \E i \in 1..Len(target) : Cardinality(Matches(target[i], staged)) > 1

\* WHEN MATCHED AND (changes) / WHEN MATCHED, for one target row
MergedRow(target_row, staged) ==
    LET m == Matches(target_row, staged)
    IN  IF m = {} THEN target_row
        ELSE LET s == staged[CHOOSE j \in m : TRUE]
             IN  IF change_condition(target_row, s)
                 THEN full_update(target_row, s)
                 ELSE refreshed_update(target_row, s)

\* WHEN NOT MATCHED: the staged row joins no target row
NotMatched(target, staged_row) ==
    \A i \in 1..Len(target) : ~join_condition(target[i], staged_row)

\* The MERGE statement of generate_merge_query on (target, staged)
MergeQuery(target, staged) ==
    [i \in 1..Len(target) |-> MergedRow(target[i], staged)]
        \o SelectSeq(staged, LAMBDA s : NotMatched(target, s))

\* load_bucket_to_bq with "<bucket>/<prefix>/*.parquet": the rows of every
\* blob under the prefix, blobs taken in name order
NameBefore(a, b) == a[1] < b[1] \/ (a[1] = b[1] /\ a[2] <= b[2])

RECURSIVE LoadBlobs(_, _)
LoadBlobs(bkt, names) ==
    IF names = {} THEN << >>
    ELSE LET first == CHOOSE n \in names : \A m \in names : NameBefore(n, m)
         IN  bkt[first] \o LoadBlobs(bkt, names \ {first})

load_bucket_to_bq(bkt) == LoadBlobs(bkt, DOMAIN bkt)

\* A clear_staging_bucket that would delete nothing
clear_staging_bucket_nothing(bkt) == bkt

\* clear_staging_bucket(prefix): every blob under the prefix is deleted
clear_staging_bucket(bkt) == EmptyBucket

\* Dataframes fetch_sensor_measurements can hand to save_dataframe_to_gcs for
\* one sensor: non-empty, sorted by standardized_measurements_sorting
RawRows(sensor_id) ==
    {[sensor_id |-> sensor_id, period_datetimeTo_utc |-> p, value |-> v] :
        p \in Periods, v \in Values}

Dataframes(sensor_id) ==
    {df \in SeqUpTo(RawRows(sensor_id), MaxRows) :
        df # << >> /\ standardized_measurements_sorting(df) = df}

\* Dataframes built from API records that carry no period.datetimeTo.utc: the
\* sort uses period.datetimeTo.local and sensor_id only, so it accepts them
KeylessRows(sensor_id) == {[sensor_id |-> sensor_id, value |-> v] : v \in Values}

KeylessDataframes(sensor_id) ==
    {df \in SeqUpTo(KeylessRows(sensor_id), MaxRows) : df # << >>}

\* fetch_sensor_measurements lines 540-555 for a fetched dataframe
StageDataframe ==
    /\ \E df \in Dataframes(1) \cup KeylessDataframes(1) :
          /\ bucket' = save_dataframe_to_gcs(bucket, df, BlobName(FetchRun, 1), clock)
          /\ staged_columns' = DOMAIN df[1]
    /\ UNCHANGED <<dest, staging_exists, upsert_result, last_staged, runVars>>
    /\ UNCHANGED <<clock, clientVars, fetchVars, retryVars>>

\* upsert_data(table, merge_keys, bucket_uri=..., prefix_uri=...), lines 459-505.
\* load_ok / query_ok: whether the load job and the MERGE job succeed on the
\* BigQuery side.  The rows of the <target>_staged table are not kept: every
\* load replaces them (WRITE_TRUNCATE) before the MERGE reads them.
\* Variant of upsert_data whose clean-up also runs when the load or the query raised.
upsert_data_clearing_on_error(load_ok, query_ok) ==
    LET staged == load_bucket_to_bq(bucket)
    IN  IF ~load_ok \/ ~query_ok \/ MergeRaises(dest, staged)
        THEN /\ staging_exists' = FALSE
             /\ bucket' = clear_staging_bucket(bucket)
             /\ upsert_result' = "raised"
             /\ UNCHANGED <<dest, last_staged, staged_columns>>
        ELSE /\ dest' = MergeQuery(dest, staged)
             /\ staging_exists' = FALSE
             /\ bucket' = clear_staging_bucket(bucket)
             /\ upsert_result' = "returned"
             /\ last_staged' = <<staged>>
             /\ UNCHANGED staged_columns

upsert_data(load_ok, query_ok) ==
    LET staged == load_bucket_to_bq(bucket)
    IN  IF ~load_ok
        THEN \* load_bucket_to_bq raised after create_table_if_not_exists
             /\ staging_exists' = TRUE
             /\ upsert_result' = "raised"
             /\ UNCHANGED <<dest, bucket, last_staged, staged_columns>>
        ELSE IF ~query_ok \/ MergeRaises(dest, staged)
        THEN \* query_job.result() raised: nothing after it runs
             /\ staging_exists' = TRUE
             /\ upsert_result' = "raised"
             /\ UNCHANGED <<dest, bucket, last_staged, staged_columns>>
        ELSE /\ dest' = MergeQuery(dest, staged)
             /\ staging_exists' = FALSE      \* delete_table(staging_table_id)
             /\ bucket' = clear_staging_bucket(bucket)
             /\ upsert_result' = "returned"
             /\ last_staged' = <<staged>>
             /\ UNCHANGED staged_columns

UpsertData ==
    /\ Len(MergeQuery(dest, load_bucket_to_bq(bucket))) <= MaxDest
    /\ \E load_ok, query_ok \in BOOLEAN : upsert_data(load_ok, query_ok)
    /\ UNCHANGED <<clock, clientVars, fetchVars, retryVars, runVars>>

MergeTick ==
    /\ clock < MaxClock
    /\ clock' = clock + 1
    /\ UNCHANGED <<bucket, clientVars, fetchVars, mergeVars, retryVars>>

MergeInit ==
    /\ dest = << >>
    /\ staging_exists = FALSE
    /\ upsert_result = "none"
    /\ last_staged = << >>
    /\ staged_columns = {}

MergeNext == StageDataframe \/ UpsertData \/ MergeTick

\* ------------------------------------------------------------------------
\* helpers._safe_serialize / helpers.save_logs
\*
\* A Python value is [kind, keys, items]: kind names its type, items are the
\* contained values (elements, dict values, exception args, dataframe cells)
\* and keys the kinds of the dict keys or series index labels.

MaxDepth == 2               \* nesting depth of the values passed to save_logs
MaxItems == 1               \* elements per container

BasicKinds == {"str", "int", "float", "bool", "none"}
LeafKinds == BasicKinds \cup {"npgeneric", "datetime", "path", "object"}
SequenceKinds == {"list", "tuple", "set"}
KeyedKinds == {"dict", "series"}
KeyKinds == {"str", "int"}

Leaf(kind) == [kind |-> kind, keys |-> << >>, items |-> << >>]

RECURSIVE PyValues(_)
PyValues(depth) ==
    IF depth = 0 THEN {Leaf(k) : k \in LeafKinds}
    ELSE LET inner == PyValues(depth - 1)
         IN  inner
             \cup {[kind |-> k, keys |-> << >>, items |-> its] :
                       k \in SequenceKinds \cup {"exception", "dataframe"},
                       its \in SeqUpTo(inner, MaxItems)}
             \cup UNION {{[kind |-> k, keys |-> ks, items |-> its] :
                             k \in KeyedKinds,
                             ks \in [1..Len(its) -> KeyKinds]} :
                         its \in SeqUpTo(inner, MaxItems)}

StrKeys(items) == [k \in 1..Len(items) |-> "str"]

\* _safe_serialize, helpers.py:306-363, branch by branch
RECURSIVE safe_serialize(_)
safe_serialize(obj) ==
    IF obj.kind \in BasicKinds THEN obj
    ELSE IF obj.kind = "dataframe"
    THEN \* obj.to_dict(orient="records"): the cells are left as they are
         [kind |-> "list", keys |-> << >>,
          items |-> << [kind |-> "dict", keys |-> StrKeys(obj.items),
                        items |-> obj.items] >>]
    ELSE IF obj.kind = "series"
    THEN \* obj.to_dict(): index labels and values are left as they are
         [kind |-> "dict", keys |-> obj.keys, items |-> obj.items]
    ELSE IF obj.kind = "npgeneric" THEN Leaf("int")
    ELSE IF obj.kind = "exception"
    THEN \* {"type": ..., "message": str(obj), "args": obj.args}
         [kind |-> "dict", keys |-> <<"str", "str", "str">>,
          items |-> << Leaf("str"), Leaf("str"),
                       [kind |-> "tuple", keys |-> << >>, items |-> obj.items] >>]
    ELSE IF obj.kind \in {"datetime", "path"} THEN Leaf("str")
    ELSE IF obj.kind = "dict"
    THEN [kind |-> "dict", keys |-> StrKeys(obj.items),
          items |-> [k \in 1..Len(obj.items) |-> safe_serialize(obj.items[k])]]
    ELSE IF obj.kind \in SequenceKinds
    THEN [kind |-> "list", keys |-> << >>,
          items |-> [k \in 1..Len(obj.items) |-> safe_serialize(obj.items[k])]]
    ELSE Leaf("str")

\* json.dump accepts basic values, lists and tuples of accepted values and
\* dicts with str or int keys and accepted values; anything else is a TypeError
RECURSIVE JsonDumps(_)
JsonDumps(value) ==
    \/ value.kind \in BasicKinds
    \/ /\ value.kind \in {"list", "tuple", "dict"}
       /\ \A k \in 1..Len(value.items) : JsonDumps(value.items[k])

\* save_logs: serialize, then json.dump into the log file
SaveLogs ==
    /\ save_result = "none"
    /\ safe_logs' = << safe_serialize(logs_arg) >>
    /\ save_result' = IF JsonDumps(safe_serialize(logs_arg)) THEN "written"
                      ELSE "TypeError"
    /\ UNCHANGED <<logs_arg, orch_pc, sensors_arg, max_retries, stack, ret, period_logs,
                   log_files, attempts>>
    /\ UNCHANGED <<clientVars, fetchVars, stageVars, mergeVars>>

LogsIdle ==
    /\ logs_arg = Leaf("none")
    /\ safe_logs = << >>
    /\ save_result = "none"

LogsInit ==
    /\ logs_arg \in PyValues(MaxDepth)
    /\ safe_logs = << >>
    /\ save_result = "none"

\* ------------------------------------------------------------------------
\* AreaDownloader.download_sensors_data / download_data_with_retries /
\* download_period_from_area

MaxRetries == 2             \* max_retries is drawn from 0..MaxRetries

\* How one fetch_sensor_measurements call ends: it returns a non-empty
\* dataframe (after staging it), returns an empty one, or raises
ErrorOutcomes == {"HTTPError429", "Exception"}
FetchOutcomes == {"data", "empty"} \cup ErrorOutcomes

\* What else may end a fetch: an interrupt of the process (a BaseException)
Interrupts == {"KeyboardInterrupt"}

\* The except clauses of download_sensors_data: requests HTTPError, Exception
Catches_http_only(outcome) == outcome = "HTTPError429"
Catches(outcome) == outcome \in ErrorOutcomes

\* sensors_id lists: sensors in any order, none twice
SensorLists ==
    {l \in SeqUpTo(Sensors, NumSensors) : \A i, j \in 1..Len(l) : i # j => l[i] # l[j]}

\* The dataframe a successful, non-empty fetch of the sensor returns
FetchedRows(sensor_id) ==
    WithSensor(ServerPage(<<1>>, 1), sensor_id)

\* One invocation of download_data_with_retries
Frame(sensors_id, retries) ==
    [sensors_id |-> sensors_id, retries |-> retries, i |-> 1,
     saved |-> << >>, errors |-> << >>, logs |-> << >>]

\* download_sensors_data, except clauses: errors.append({...})
ErrorsAfter_http_only(errors, sensor_id, outcome) ==
    IF outcome = "HTTPError429"
    THEN Append(errors, [sensor_id |-> sensor_id, type |-> outcome])
    ELSE errors
\* An errors list that would also take the fetches returning no record
ErrorsAfter_unless_data(errors, sensor_id, outcome) ==
    IF outcome # "data"
    THEN Append(errors, [sensor_id |-> sensor_id, type |-> outcome])
    ELSE errors
ErrorsAfter(errors, sensor_id, outcome) ==
    IF outcome \in ErrorOutcomes
    THEN Append(errors, [sensor_id |-> sensor_id, type |-> outcome])
    ELSE errors

\* A saved list that would take every fetch that returned, records or not
SavedAfter_returned(saved, sensor_id, outcome) ==
    IF outcome \in {"data", "empty"}
    THEN Append(saved, BlobName(FetchRun, sensor_id)) ELSE saved

\* download_sensors_data: if len(df_measurements) > 0: saved.append(filename)
SavedAfter(saved, sensor_id, outcome) ==
    IF outcome = "data" THEN Append(saved, BlobName(FetchRun, sensor_id)) ELSE saved

\* Abort if there are still errors after max retries
AbortNow_late(retries, max) == retries > max
AbortNow(retries, max) == retries >= max

\* sensors_to_retry: the sensor_id of every error, in order
sensors_to_retry_all(sensors_id, errors) == sensors_id
\* A retry list in another order than the errors, as iterating a set could give
sensors_to_retry_reversed(sensors_id, errors) ==
    [k \in 1..Len(errors) |-> errors[Len(errors) + 1 - k].sensor_id]
sensors_to_retry(sensors_id, errors) ==
    [k \in 1..Len(errors) |-> errors[k].sensor_id]

\* The log record of one depth, lines 731-760
LogRecord(frame, max) ==
    [status |-> IF Len(frame.errors) = 0 THEN "downloaded"
                ELSE IF AbortNow(frame.retries, max) THEN "aborted"
                ELSE "retrying",
     saved |-> frame.saved,
     errors |-> frame.errors,
     retries |-> frame.retries]

RECURSIVE SumLen(_, _)
SumLen(logs, field) ==
    IF logs = << >> THEN 0
    ELSE Len(logs[1][field]) + SumLen(Tail(logs), field)

\* total_errors += len(run["errors"]) over every record
total_errors_last(logs) == Len(logs[Len(logs)].errors)
total_errors(logs) == SumLen(logs, "errors")

total_saved(logs) == SumLen(logs, "saved")

\* A count that would take every record for a retry
total_retries_every_record(logs) == Len(logs)

\* total_retries: the records whose status is "retrying"
total_retries(logs) ==
    Cardinality({k \in 1..Len(logs) : logs[k].status = "retrying"})

\* run_status, lines 801-805
run_status_first(logs) ==
    IF logs[1].status # "aborted" THEN "downloaded" ELSE "aborted"
run_status(logs) ==
    IF logs[Len(logs)].status # "aborted" THEN "downloaded" ELSE "aborted"

\* 3. EXIT: the summary returned by the root invocation, lines 788-824
Rollup(sensors_id, logs) ==
    [status |-> run_status(logs),
     errors |-> total_errors(logs),
     saved |-> total_saved(logs),
     retries |-> total_retries(logs),
     sensors |-> sensors_id,
     logs |-> logs]

\* The return of download_data_with_retries, lines 783-826
ReturnValue(frame, concatenated_logs) ==
    IF frame.retries = 0
    THEN << Rollup(frame.sensors_id, concatenated_logs) >>
    ELSE concatenated_logs

\* download_period_from_area, lines 833-894: the call of the root invocation,
\* or return [] when no sensor is in range
StartPeriod ==
    /\ orch_pc = "idle"
    /\ IF Len(sensors_arg) = 0
       THEN /\ orch_pc' = "done"
            /\ UNCHANGED <<stack, attempts>>
       ELSE /\ orch_pc' = "download"
            /\ stack' = << Frame(sensors_arg, 0) >>
            /\ attempts' = << << >> >>
    /\ UNCHANGED <<sensors_arg, max_retries, ret, period_logs, log_files, logVars>>
    /\ UNCHANGED <<clientVars, fetchVars, stageVars, mergeVars>>

\* download_sensors_data, one iteration of the for loop (lines 623-674).  An
\* exception no except clause catches leaves download_sensors_data, every
\* download_data_with_retries above it and download_period_from_area.
DownloadSensor ==
    /\ orch_pc = "download"
    /\ LET depth == Len(stack)
           frame == stack[depth]
       IN  /\ frame.i <= Len(frame.sensors_id)
           /\ \E outcome \in FetchOutcomes \cup Interrupts :
                 LET sensor_id == frame.sensors_id[frame.i]
                 IN  /\ attempts' = [attempts EXCEPT ![depth] =
                            Append(@, [sensor_id |-> sensor_id, outcome |-> outcome])]
                     /\ IF outcome \in {"data", "empty"} \/ Catches(outcome)
                        THEN /\ stack' = [stack EXCEPT ![depth] =
                                    [frame EXCEPT
                                        !.i = frame.i + 1,
                                        !.saved = SavedAfter(frame.saved, sensor_id, outcome),
                                        !.errors = ErrorsAfter(frame.errors, sensor_id, outcome)]]
                             /\ bucket' = IF outcome = "data"
                                          THEN save_dataframe_to_gcs(bucket,
                                                   FetchedRows(sensor_id),
                                                   BlobName(FetchRun, sensor_id), clock)
                                          ELSE bucket
                             /\ UNCHANGED orch_pc
                        ELSE /\ orch_pc' = "fetch_raised"
                             /\ stack' = << >>
                             /\ UNCHANGED bucket
    /\ UNCHANGED <<sensors_arg, max_retries, ret, period_logs, log_files, logVars>>
    /\ UNCHANGED <<clock, clientVars, fetchVars, mergeVars>>

\* download_sensors_data returns; download_data_with_retries lines 731-781:
\* the record of this depth, then abort, recurse or return
FinishPass ==
    /\ orch_pc = "download"
    /\ LET depth == Len(stack)
           frame == stack[depth]
           record == LogRecord(frame, max_retries)
       IN  /\ frame.i > Len(frame.sensors_id)
           /\ IF record.status = "retrying"
              THEN /\ stack' = Append([stack EXCEPT ![depth].logs = <<record>>],
                                      Frame(sensors_to_retry(frame.sensors_id, frame.errors),
                                            frame.retries + 1))
                   /\ attempts' = Append(attempts, << >>)
                   /\ UNCHANGED <<orch_pc, ret>>
              ELSE /\ ret' = ReturnValue(frame, <<record>>)
                   /\ stack' = SubSeq(stack, 1, depth - 1)
                   /\ orch_pc' = IF depth = 1 THEN "period" ELSE "return"
                   /\ UNCHANGED attempts
    /\ UNCHANGED <<sensors_arg, max_retries, period_logs, log_files, logVars>>
    /\ UNCHANGED <<clientVars, fetchVars, stageVars, mergeVars>>

\* The recursive call returned retry_logs: lines 783-826 in the caller
ReturnFromRetry ==
    /\ orch_pc = "return"
    /\ LET depth == Len(stack)
           frame == stack[depth]
           retry_logs == ret
           concatenated_logs == IF Len(retry_logs) > 0 THEN frame.logs \o retry_logs
                                ELSE frame.logs
       IN  /\ ret' = ReturnValue(frame, concatenated_logs)
           /\ stack' = SubSeq(stack, 1, depth - 1)
           /\ orch_pc' = IF depth = 1 THEN "period" ELSE "return"
    /\ UNCHANGED <<sensors_arg, max_retries, period_logs, log_files, attempts, logVars>>
    /\ UNCHANGED <<clientVars, fetchVars, stageVars, mergeVars>>

\* download_period_from_area, lines 894-969: merge the staging bucket into
\* BigQuery, finalize the status, write the logs, return period_logs.  An
\* exception of upsert_data leaves download_period_from_area.
PeriodSave ==
    /\ orch_pc = "period"
    /\ \E load_ok, query_ok \in BOOLEAN : upsert_data(load_ok, query_ok)
    /\ IF upsert_result' = "raised"
       THEN /\ orch_pc' = "raised"
            /\ UNCHANGED <<period_logs, log_files>>
       ELSE LET logs == [ret[1] EXCEPT
                            !.status = IF @ = "aborted" THEN "aborted" ELSE "completed"]
            IN  /\ period_logs' = <<logs>>
                /\ log_files' = Append(log_files, logs)
                /\ orch_pc' = "done"
    /\ UNCHANGED <<sensors_arg, max_retries, stack, ret, attempts, logVars>>
    /\ UNCHANGED <<clock, clientVars, fetchVars, runVars>>

OrchIdle ==
    /\ orch_pc = "idle"
    /\ sensors_arg = << >>
    /\ max_retries = 0
    /\ stack = << >>
    /\ ret = << >>
    /\ period_logs = << >>
    /\ log_files = << >>
    /\ attempts = << >>

RetryIdle == OrchIdle /\ LogsIdle

RetryInit ==
    /\ orch_pc = "idle"
    /\ sensors_arg \in SensorLists
    /\ max_retries \in 0..MaxRetries
    /\ stack = << >>
    /\ ret = << >>
    /\ period_logs = << >>
    /\ log_files = << >>
    /\ attempts = << >>
    /\ LogsIdle

RetryNext == StartPeriod \/ DownloadSensor \/ FinishPass \/ ReturnFromRetry \/ PeriodSave

\* ------------------------------------------------------------------------
\* Two runs (two processes running download_period_from_area for different
\* periods) against the same staging bucket, staging table and target table.
\* upsert_data is followed statement by statement.

RunIds == {FetchRun, FetchRun + 1}

\* The dataframe a run fetches for a sensor: the periods of two runs differ
RunRows(run_id, sensor_id) ==
    << [sensor_id |-> sensor_id, period_datetimeTo_utc |-> run_id, value |-> 1] >>

NoTable == [rows |-> << >>, blobs |-> {}]

NoIo == [loaded |-> {}, deleted |-> {}]

\* fetch_sensor_measurements of the run stages the dataframe of one sensor
RunStage(run_id) ==
    /\ run_pc[run_id] = "fetch"
    /\ \E sensor_id \in Sensors :
          /\ BlobName(run_id, sensor_id) \notin DOMAIN bucket
          /\ bucket' = save_dataframe_to_gcs(bucket, RunRows(run_id, sensor_id),
                                             BlobName(run_id, sensor_id), clock)
    /\ UNCHANGED <<clock, clientVars, fetchVars, mergeVars, retryVars>>

\* upsert_data lines 459-471: load gs://<bucket>/openaq/measurements/*.parquet
\* into the staging table (WRITE_TRUNCATE), or raise
RunLoad(run_id) ==
    /\ run_pc[run_id] = "fetch"
    /\ staging_exists' = TRUE
    /\ \E load_ok \in BOOLEAN :
          IF load_ok
          THEN /\ staging_table' = [rows |-> load_bucket_to_bq(bucket),
                                    blobs |-> DOMAIN bucket]
               /\ run_io' = [run_io EXCEPT ![run_id].loaded = DOMAIN bucket]
               /\ run_pc' = [run_pc EXCEPT ![run_id] = "loaded"]
          ELSE /\ run_pc' = [run_pc EXCEPT ![run_id] = "raised"]
               /\ UNCHANGED <<staging_table, run_io>>
    /\ UNCHANGED <<dest, upsert_result, last_staged, staged_columns, merged>>
    /\ UNCHANGED <<clientVars, fetchVars, stageVars, retryVars>>

\* upsert_data lines 473-481: the MERGE query, which raises when the staging
\* table is gone or when a target row matches several staged rows
RunQuery(run_id) ==
    /\ run_pc[run_id] = "loaded"
    /\ IF ~staging_exists \/ MergeRaises(dest, staging_table.rows)
       THEN /\ run_pc' = [run_pc EXCEPT ![run_id] = "raised"]
            /\ UNCHANGED <<dest, merged>>
       ELSE /\ dest' = MergeQuery(dest, staging_table.rows)
            /\ merged' = merged \cup staging_table.blobs
            /\ run_pc' = [run_pc EXCEPT ![run_id] = "merged"]
    /\ UNCHANGED <<staging_exists, upsert_result, last_staged, staged_columns, staging_table, run_io>>
    /\ UNCHANGED <<clientVars, fetchVars, stageVars, retryVars>>

\* upsert_data line 492: delete_table(staging_table_id, not_found_ok=True)
RunDeleteTable(run_id) ==
    /\ run_pc[run_id] = "merged"
    /\ staging_exists' = FALSE
    /\ staging_table' = NoTable
    /\ run_pc' = [run_pc EXCEPT ![run_id] = "dropped"]
    /\ UNCHANGED <<dest, upsert_result, last_staged, staged_columns, run_io, merged>>
    /\ UNCHANGED <<clientVars, fetchVars, stageVars, retryVars>>

\* upsert_data lines 499-505: clear_staging_bucket(prefix="openaq/measurements")
RunClear(run_id) ==
    /\ run_pc[run_id] = "dropped"
    /\ run_io' = [run_io EXCEPT ![run_id].deleted = DOMAIN bucket]
    /\ bucket' = clear_staging_bucket(bucket)
    /\ run_pc' = [run_pc EXCEPT ![run_id] = "done"]
    /\ UNCHANGED <<dest, staging_exists, upsert_result, last_staged, staged_columns, staging_table, merged>>
    /\ UNCHANGED <<clock, clientVars, fetchVars, retryVars>>

RunsIdle ==
    /\ run_pc = [r \in RunIds |-> "idle"]
    /\ staging_table = NoTable
    /\ run_io = [r \in RunIds |-> NoIo]
    /\ merged = {}

RunsInit ==
    /\ run_pc = [r \in RunIds |-> "fetch"]
    /\ staging_table = NoTable
    /\ run_io = [r \in RunIds |-> NoIo]
    /\ merged = {}

RunsNext ==
    \E run_id \in RunIds :
        \/ RunStage(run_id)
        \/ RunLoad(run_id)
        \/ RunQuery(run_id)
        \/ RunDeleteTable(run_id)
        \/ RunClear(run_id)

\* ------------------------------------------------------------------------
\* Specifications

InitClient == ClientInit /\ PeriodIdle /\ FetchIdle /\ ServerIdle /\ StageInit /\ MergeInit /\ RetryIdle /\ RunsIdle

SpecClient == InitClient /\ [][ClientNext]_vars

InitFetch == ClientInit /\ PeriodAny /\ FetchIdle /\ ServerAny /\ StageInit /\ MergeInit /\ RetryIdle /\ RunsIdle

SpecFetch == InitFetch /\ [][FetchNext]_vars

InitMerge == ClientInit /\ PeriodIdle /\ FetchIdle /\ ServerIdle /\ StageInit /\ MergeInit /\ RetryIdle /\ RunsIdle

SpecMerge == InitMerge /\ [][MergeNext]_vars

InitRetry == ClientInit /\ PeriodIdle /\ FetchIdle /\ ServerIdle /\ StageInit /\ MergeInit /\ RetryInit /\ RunsIdle

SpecRetry == InitRetry /\ [][RetryNext]_vars

InitRuns == ClientInit /\ PeriodIdle /\ FetchIdle /\ ServerIdle /\ StageInit /\ MergeInit /\ RetryIdle /\ RunsInit

SpecRuns == InitRuns /\ [][RunsNext]_vars

InitLogs ==
    /\ ClientInit /\ PeriodIdle /\ FetchIdle /\ ServerIdle /\ StageInit /\ MergeInit /\ RunsIdle
    /\ OrchIdle /\ LogsInit

SpecLogs == InitLogs /\ [][SaveLogs]_vars

\* ------------------------------------------------------------------------
\* Properties of the merge (SpecMerge)

\* A step in which upsert_data ran its MERGE to completion and cleaned up
MergeCompletes ==
    /\ upsert_result' = "returned"
    /\ bucket' = EmptyBucket
    /\ clock' = clock
    /\ last_staged' = <<load_bucket_to_bq(bucket)>>

\* The staged row's key is present in a destination row: every key column
\* holds the same, non-NULL value
KeyPresent(target_row, staged_row) ==
    /\ target_row.sensor_id # NULL
    /\ target_row.sensor_id = staged_row.sensor_id
    /\ target_row.period_datetimeTo_utc # NULL
    /\ target_row.period_datetimeTo_utc = staged_row.period_datetimeTo_utc

KeyAbsent(target, staged_row) ==
    \A i \in 1..Len(target) : ~KeyPresent(target[i], staged_row)

\* What one merge did to the destination, staged row by staged row
ThreeWay(target, staged, result) ==
    /\ Len(result) - Len(target)
         = Cardinality({j \in 1..Len(staged) : KeyAbsent(target, staged[j])})
    /\ \A j \in 1..Len(staged) :
          \* (a) new key: the full staged row is inserted
          /\ KeyAbsent(target, staged[j]) =>
                \E i \in (Len(target) + 1)..Len(result) : result[i] = staged[j]
          /\ \A i \in 1..Len(target) :
                KeyPresent(target[i], staged[j]) =>
                    IF target[i].value # staged[j].value
                    THEN \* (b) changed: all mutable columns take the staged values
                         result[i] = [target[i] EXCEPT
                                         !.value = staged[j].value,
                                         !.updated_at = staged[j].updated_at,
                                         !.refreshed_at = staged[j].refreshed_at]
                    ELSE \* (c) unchanged: only refreshed_at is touched
                         result[i] = [target[i] EXCEPT
                                         !.refreshed_at = staged[j].refreshed_at]

\* C4: Merge three-way correctness. In every merge that completes, each staged
\* row does exactly one of: (a) its key is absent from the destination and the
\* full staged row is inserted; (b) its key is present and the data column
\* differs, and the destination row takes the staged data, updated_at and
\* refreshed_at, keeping its key and ingested_at; (c) its key is present and
\* the data is equal, and only refreshed_at changes.
C4_MergeThreeWay ==
    [][MergeCompletes => ThreeWay(dest, load_bucket_to_bq(bucket), dest')]_vars

\* C4 witness: the destination holds a row that a later merge fully updated
\* (updated_at after ingested_at) and a row that a later merge only refreshed
\* (refreshed_at after updated_at = ingested_at); both were inserted by a merge.
C4_Witness ==
    /\ upsert_result = "returned"
    /\ \E i, j \in 1..Len(dest) :
          /\ dest[i].ingested_at < dest[i].updated_at
          /\ dest[i].updated_at = dest[i].refreshed_at
          /\ dest[j].ingested_at = dest[j].updated_at
          /\ dest[j].updated_at < dest[j].refreshed_at

\* The key and data columns of staged rows, without the audit columns
StagedData(staged) ==
    [j \in 1..Len(staged) |->
        [sensor_id |-> staged[j].sensor_id,
         period_datetimeTo_utc |-> staged[j].period_datetimeTo_utc,
         value |-> staged[j].value]]

SameExceptRefreshed(before, after) ==
    /\ Len(before) = Len(after)
    /\ \A i \in 1..Len(before) :
          \A col \in all_columns \ {"refreshed_at"} : before[i][col] = after[i][col]

\* C5: Merge idempotence. A merge that completes on the same staged data as
\* the merge completed before it leaves the destination as the first merge
\* left it, in every column except refreshed_at: same rows, no insert, no
\* change of updated_at.
C5_MergeIdempotent ==
    [][(/\ MergeCompletes
        /\ last_staged # << >>
        /\ StagedData(load_bucket_to_bq(bucket)) = StagedData(last_staged[1]))
       => SameExceptRefreshed(dest, dest')]_vars

\* ------------------------------------------------------------------------
\* Properties of the pagination loop (SpecFetch)

\* The server's pages hold exactly the number of records it reports as found
PagesSumToFound == SumSeq(srv_pages) = srv_found

\* C1: Pagination completeness. When the server's pages sum to the found value
\* N > 0 of the first page, the fetch never asks for a page past the last one
\* the server holds and returns exactly N records; when the first page reports
\* found = 0 the fetch returns no record after exactly one request, for page 1.
C1_PaginationComplete ==
    /\ (srv_found > 0 /\ PagesSumToFound) =>
          /\ fetch_pc = "loop" => page <= Len(srv_pages)
          /\ fetch_pc = "returned" => Len(fetch_return) = srv_found
    /\ found_value = 0 =>
          /\ fetch_pc = "returned"
          /\ fetch_return = << >>
          /\ Len(requests) = 1
          /\ requests[1].page = 1
          /\ requests[1].limit = PAGE_LIMIT

\* C1 witness: a fetch over three pages, one of them empty, has returned all
\* the records the first page announced.
C1_Witness ==
    /\ fetch_pc = "returned"
    /\ srv_found >= 2
    /\ PagesSumToFound
    /\ Len(requests) = 3
    /\ \E p \in 1..2 : srv_pages[p] = 0
    /\ Len(fetch_return) = srv_found

\* C8: Bounded pagination. A fetch that has issued MaxPage page requests is
\* over: it has returned or raised an error.
C8_BoundedPagination ==
    Len(requests) >= MaxPage => fetch_pc \in {"returned", "raised"}

\* ------------------------------------------------------------------------
\* Properties of the client (SpecClient)

\* C6: Rate-limit wait. The last request_api call slept ratelimit_reset + 1
\* seconds before its HTTP call exactly when 0 <= ratelimit_remaining < 5 held
\* on entry; otherwise (remaining >= 5, or the unknown -1) the HTTP call is the
\* first thing it did.
C6_WaitExactlyWhenLow ==
    call_result # "none" =>
        IF call_state.remaining >= 0 /\ call_state.remaining < 5
        THEN /\ Len(call_trace) >= 2
             /\ call_trace[1] = [op |-> "sleep", secs |-> call_state.reset + 1]
             /\ call_trace[2].op = "http"
        ELSE call_trace[1].op = "http"

\* C6 witness: a call entered with remaining = 3 slept first, and a call
\* entered with remaining = 10 would not (the state after it is reachable too).
C6_Witness ==
    /\ call_result # "none"
    /\ call_state.remaining = 3
    /\ call_trace[1].op = "sleep"
    /\ call_trace[2].op = "http"

IsHttp(step) == step.op = "http"

IsCooldown(step) == step.op = "sleep" /\ step.secs = COOLDOWN

\* C11: a request_api call answered with HTTP 429 sleeps the 60 s cooldown once,
\* after its HTTP request and as the last thing it does, and raises the 429
\* error; every request_api call issues exactly one HTTP request.
C11_CooldownThenRaise ==
    call_result # "none" =>
        /\ Len(SelectSeq(call_trace, IsHttp)) = 1
        /\ call_result = "HTTPError429" =>
              /\ call_trace[Len(call_trace)] = [op |-> "sleep", secs |-> 60]
              /\ call_trace[Len(call_trace) - 1].op = "http"
              /\ Len(SelectSeq(SubSeq(call_trace, 2, Len(call_trace)), IsCooldown)) = 1

C11_Witness ==
    /\ call_result = "HTTPError429"
    /\ call_state.remaining = 10
    /\ Len(call_trace) = 2
    /\ call_trace[2] = [op |-> "sleep", secs |-> 60]

\* ------------------------------------------------------------------------
\* Properties of the retry orchestration (SpecRetry)

\* download_data_with_retries has returned to download_period_from_area
RootReturned == orch_pc \in {"period", "done", "raised"} /\ Len(sensors_arg) > 0

\* download_period_from_area has returned period_logs of a run with sensors
PeriodReturned == orch_pc = "done" /\ Len(sensors_arg) > 0

Failed(attempt) == attempt.outcome \in ErrorOutcomes

AttemptSensors(pass) == [k \in 1..Len(pass) |-> pass[k].sensor_id]

ErrorSensors(errors) == [k \in 1..Len(errors) |-> errors[k].sensor_id]

FailedAttempts(pass) == SelectSeq(pass, Failed)

EveryFetchFailed ==
    \A d \in 1..Len(attempts) : \A k \in 1..Len(attempts[d]) : Failed(attempts[d][k])

\* Steps the run can still take: it decreases with every step of the run
PcRank ==
    CASE orch_pc = "idle" -> 3 + (MaxRetries + 2) + 2 * (MaxRetries + 1) * (NumSensors + 1)
      [] orch_pc \in {"download", "return"} -> 2
      [] orch_pc = "period" -> 1
      [] OTHER -> 0

PassesLeft ==
    IF orch_pc # "download" THEN 0
    ELSE LET frame == stack[Len(stack)]
         IN  (max_retries + 1 - Len(stack)) * (NumSensors + 1)
                 + (Len(frame.sensors_id) + 1 - frame.i)

Measure == PcRank + Len(stack) + 2 * PassesLeft

DepthBounded ==
    /\ Len(stack) <= max_retries + 1
    /\ Len(attempts) <= max_retries + 1
    /\ Measure >= 0
    /\ RootReturned =>
         LET root == ret[1]
             deepest == root.logs[Len(root.logs)]
         IN  /\ Len(root.logs) <= max_retries + 1
             /\ EveryFetchFailed =>
                  /\ root.status = "aborted"
                  /\ Range(ErrorSensors(deepest.errors)) = Range(sensors_arg)

\* C2: for every max_retries = k and every pattern of failures the run ends
\* (every step lowers a natural-number measure), the nesting of
\* download_data_with_retries and the length of the returned logs never exceed
\* k + 1, and when every fetch fails the root status is "aborted" and the
\* deepest record's errors name every input sensor.
C2_RetryTerminates == [](DepthBounded) /\ [][Measure' < Measure]_vars

C2_Witness ==
    /\ RootReturned
    /\ EveryFetchFailed
    /\ max_retries = MaxRetries
    /\ Len(sensors_arg) >= 2
    /\ Len(ret[1].logs) = max_retries + 1
    /\ ret[1].status = "aborted"

\* The for loop of download_sensors_data has ended, the pass is about to return
PassEnded ==
    /\ orch_pc = "download"
    /\ stack[Len(stack)].i > Len(stack[Len(stack)].sensors_id)

\* C3: when exactly one fetch of a pass fails, wherever it is in the list, every
\* sensor of the list was fetched in that pass, every other sensor's data is
\* staged and listed in saved, and errors holds exactly the failed sensor.
C3_PartialFailureIsolation ==
    PassEnded =>
        LET frame == stack[Len(stack)]
            pass == attempts[Len(stack)]
        IN  Len(FailedAttempts(pass)) = 1 =>
              /\ AttemptSensors(pass) = frame.sensors_id
              /\ \A k \in 1..Len(pass) :
                    pass[k].outcome = "data" =>
                        /\ BlobName(FetchRun, pass[k].sensor_id) \in DOMAIN bucket
                        /\ BlobName(FetchRun, pass[k].sensor_id) \in Range(frame.saved)
              /\ ErrorSensors(frame.errors) = AttemptSensors(FailedAttempts(pass))

C3_Witness ==
    /\ PassEnded
    /\ Len(stack) = 1
    /\ Len(sensors_arg) = 3
    /\ Len(FailedAttempts(attempts[1])) = 1
    /\ Failed(attempts[1][1])
    /\ attempts[1][2].outcome = "data"
    /\ attempts[1][3].outcome = "data"
    /\ Len(stack[1].saved) = 2

\* Some fetch failed at depth 0 and every fetch of depth 1 succeeded
RetryThenSuccess ==
    /\ PeriodReturned
    /\ Len(attempts) = 2
    /\ FailedAttempts(attempts[1]) # << >>
    /\ FailedAttempts(attempts[2]) = << >>

IsData(attempt) == attempt.outcome = "data"

NotFailed(attempt) == ~Failed(attempt)

Blobs(pass) == [k \in 1..Len(pass) |-> BlobName(FetchRun, pass[k].sensor_id)]

RetryScenario(saved_pass) ==
    RetryThenSuccess =>
        LET root == period_logs[1]
        IN  /\ Len(root.logs) = 2
            /\ root.logs[1].status = "retrying"
            /\ root.logs[1].saved = Blobs(saved_pass)
            /\ ErrorSensors(root.logs[1].errors) = AttemptSensors(FailedAttempts(attempts[1]))
            /\ AttemptSensors(attempts[2]) = AttemptSensors(FailedAttempts(attempts[1]))
            /\ root.status = "completed"
            /\ root.retries = 1

\* C7: when some sensors fail at depth 0 and all of them succeed at depth 1,
\* the depth-0 record has status "retrying", its saved names the sensors whose
\* fetch returned at least one record, its errors the failed ones, depth 1
\* fetches only the failed sensors, and the root summary has status
\* "completed" with retries = 1.
C7_RetryThenSuccess == RetryScenario(SelectSeq(attempts[1], IsData))

\* C7 as stated: saved names every sensor whose fetch succeeded
C7_SavedAllSucceeded == RetryScenario(SelectSeq(attempts[1], NotFailed))

C7_Witness ==
    /\ RetryThenSuccess
    /\ Len(sensors_arg) = 3
    /\ attempts[1][1].outcome = "data"
    /\ Failed(attempts[1][2])
    /\ attempts[1][3].outcome = "data"
    /\ attempts[2] = << [sensor_id |-> sensors_arg[2], outcome |-> "data"] >>
    /\ period_logs[1].retries = 1

\* C9: the summary returned for a top-level run has status "aborted" exactly
\* when the deepest record of its logs has status "aborted", and "completed"
\* otherwise.
C9_RootStatus ==
    PeriodReturned =>
        LET root == period_logs[1]
            deepest == root.logs[Len(root.logs)]
        IN  /\ root.status = "aborted" <=> deepest.status = "aborted"
            /\ deepest.status # "aborted" => root.status = "completed"
            /\ log_files = << root >>

C9_Witness ==
    /\ PeriodReturned
    /\ Len(period_logs[1].logs) >= 2
    /\ period_logs[1].logs[1].status = "retrying"
    /\ period_logs[1].status = "aborted"

\* C10: the errors field of the root summary is the number of error entries of
\* all the records of the logs together, so it is 0 only when no fetch failed
\* at any depth.
C10_ErrorTotal ==
    PeriodReturned =>
        LET root == period_logs[1]
        IN  /\ root.errors = SumSeq([d \in 1..Len(attempts) |-> Len(FailedAttempts(attempts[d]))])
            /\ root.errors = 0 <=> \A d \in 1..Len(attempts) : FailedAttempts(attempts[d]) = << >>

\* C10 as stated: the errors field is the number of errors of the deepest record
C10_ErrorsRemaining ==
    PeriodReturned =>
        LET root == period_logs[1]
        IN  root.errors = Len(root.logs[Len(root.logs)].errors)

C10_Witness ==
    /\ PeriodReturned
    /\ Len(period_logs[1].logs) = 3
    /\ period_logs[1].logs[3].errors = << >>
    /\ period_logs[1].errors >= 2

\* Some fetch of the sensor failed with something else than HTTP 429
FailedOtherwise(sensor_id) ==
    \E d \in 1..Len(attempts) : \E k \in 1..Len(attempts[d]) :
        /\ attempts[d][k].sensor_id = sensor_id
        /\ Failed(attempts[d][k])
        /\ attempts[d][k].outcome # "HTTPError429"

\* C12: a rate-limit error is never terminal. A run that ends with status
\* "aborted" has, among the sensors still in error at its deepest record, one
\* whose fetch failed with something else than HTTP 429.
C12_RateLimitNotTerminal ==
    (PeriodReturned /\ period_logs[1].status = "aborted") =>
        LET logs == period_logs[1].logs
        IN  \E k \in 1..Len(logs[Len(logs)].errors) :
                FailedOtherwise(logs[Len(logs)].errors[k].sensor_id)

ErrorKinds(errors) == [k \in 1..Len(errors) |-> errors[k].type]

AttemptOutcomes(pass) == [k \in 1..Len(pass) |-> pass[k].outcome]

\* C13: no failure of a fetch (an HTTP error status, or any other Exception
\* such as a connection failure or a malformed response) leaves
\* download_data_with_retries: when it has returned, the errors of the record
\* of every depth are exactly the failed fetches of that depth, in order and
\* with their kind.
C13_FetchFailuresAreLogged ==
    /\ orch_pc = "fetch_raised" =>
          LET pass == attempts[Len(attempts)]
          IN  ~Failed(pass[Len(pass)])
    /\ RootReturned =>
          LET logs == ret[1].logs
          IN  /\ Len(logs) = Len(attempts)
              /\ \A d \in 1..Len(logs) :
                    /\ ErrorSensors(logs[d].errors) = AttemptSensors(FailedAttempts(attempts[d]))
                    /\ ErrorKinds(logs[d].errors) = AttemptOutcomes(FailedAttempts(attempts[d]))

C13_Witness ==
    /\ RootReturned
    /\ Len(attempts) = 2
    /\ Len(sensors_arg) = 3
    /\ AttemptOutcomes(attempts[1]) = <<"HTTPError429", "data", "Exception">>
    /\ AttemptOutcomes(attempts[2]) = <<"Exception", "data">>
    /\ ret[1].status = "aborted"

\* The fetches of the whole run that ended with the given outcomes
CountAttempts(outcomes) ==
    SumSeq([d \in 1..Len(attempts) |->
               Cardinality({k \in 1..Len(attempts[d]) :
                               attempts[d][k].outcome \in outcomes})])

\* C14: cancellation. When an interrupt has ended a run during a fetch, one log
\* document of the run has been written, with status "aborted" and the totals
\* (saved, errors) accumulated up to the interrupt.
C14_InterruptedRunLogged ==
    orch_pc = "fetch_raised" =>
        /\ Len(log_files) = 1
        /\ log_files[1].status = "aborted"
        /\ log_files[1].saved = CountAttempts({"data"})
        /\ log_files[1].errors = CountAttempts(ErrorOutcomes)

\* upsert_data has been called by download_period_from_area and is over
UpsertOver == orch_pc \in {"done", "raised"} /\ Len(sensors_arg) > 0

\* C17: empty input is benign. When no sensor of the run staged an artifact,
\* the upsert of download_period_from_area returns without raising and the
\* target table is as it was (empty).
C17_EmptyInputBenign ==
    (UpsertOver /\ CountAttempts({"data"}) = 0) =>
        /\ upsert_result = "returned"
        /\ orch_pc = "done"
        /\ dest = << >>

\* ------------------------------------------------------------------------
\* Properties of runs sharing the staging area (SpecRuns)

OwnBlobs(run_id, blobs) == \A b \in blobs : b[1] = run_id

\* C15: staging isolation. The load of a run reads only blobs that run staged,
\* its clear deletes only blobs that run staged, and every deleted blob had
\* been read by a MERGE.
C15_StagingIsolation ==
    \A run_id \in RunIds :
        /\ OwnBlobs(run_id, run_io[run_id].loaded)
        /\ OwnBlobs(run_id, run_io[run_id].deleted)
        /\ run_io[run_id].deleted \subseteq merged

\* ------------------------------------------------------------------------
\* Properties of save_logs (SpecLogs)

\* Only strings, numbers, booleans, null, lists (or tuples, which json writes
\* as lists) and string-keyed dicts
RECURSIVE JsonSafe(_)
JsonSafe(value) ==
    \/ value.kind \in BasicKinds
    \/ /\ value.kind \in {"list", "tuple", "dict"}
       /\ \A k \in 1..Len(value.keys) : value.keys[k] = "str"
       /\ \A k \in 1..Len(value.items) : JsonSafe(value.items[k])

\* C16: whatever value save_logs is given, _safe_serialize returns a structure
\* of strings, numbers, booleans, null, lists and string-keyed dicts only, and
\* save_logs writes it without failing.
C16_SerializationSafe ==
    save_result # "none" =>
        /\ JsonSafe(safe_logs[1])
        /\ save_result = "written"

\* ------------------------------------------------------------------------
\* Properties of the merge on dataframes without a key column (SpecMerge)

\* The staged artifact comes from a dataframe that lacked a merge-key column
StagedLacksKey ==
    /\ bucket # EmptyBucket
    /\ ~(merge_keys \subseteq staged_columns)

\* C18: schema mismatch. When the staged records lack a merge-key column,
\* upsert_data fails with an error and the destination table is unchanged.
C18_SchemaMismatch ==
    [][(UpsertData /\ StagedLacksKey) =>
           (upsert_result' = "raised" /\ dest' = dest)]_vars

\* ------------------------------------------------------------------------
\* Properties of the clean-up after a merge (SpecMerge)

\* C19: after every successful merge the staging area is cleared. When
\* upsert_data returns normally, the staging table has been deleted and no
\* staged artifact remains under the merged prefix.
C19_StagingCleared ==
    [][(UpsertData /\ upsert_result' = "returned") =>
           (~staging_exists' /\ DOMAIN bucket' = {})]_vars

\* upsert_data has just merged a non-empty staged artifact and returned
C19_Witness ==
    /\ upsert_result = "returned"
    /\ last_staged # << >>
    /\ last_staged[1] # << >>
    /\ dest # << >>
    /\ bucket = EmptyBucket

\* ------------------------------------------------------------------------
\* Properties of an aborted run (SpecRetry)

\* The key and data columns of the row are those of some row of the table
HasRow(table, row) ==
    \E j \in 1..Len(table) : StagedData(table)[j] = row

\* The sensors fetched with at least one record, at any depth
DataSensors ==
    {sensor_id \in Sensors :
        \E d \in 1..Len(attempts) : \E k \in 1..Len(attempts[d]) :
            attempts[d][k].sensor_id = sensor_id /\ IsData(attempts[d][k])}

\* C20: no fetched data is lost on abort. When download_period_from_area
\* returns a summary with status "aborted", the records of every sensor that
\* was fetched with at least one record, at any depth, were in the staged
\* artifacts the merge read and are in the destination table.
C20_NoDataLostOnAbort ==
    (PeriodReturned /\ period_logs[1].status = "aborted") =>
        \A sensor_id \in DataSensors :
            \A i \in 1..Len(FetchedRows(sensor_id)) :
                /\ last_staged # << >>
                /\ HasRow(last_staged[1], FetchedRows(sensor_id)[i])
                /\ HasRow(dest, FetchedRows(sensor_id)[i])

\* An aborted run in which one sensor was fetched at depth 0 and another one
\* at depth 1, while a third kept failing
C20_Witness ==
    /\ PeriodReturned
    /\ period_logs[1].status = "aborted"
    /\ Len(attempts) = 3
    /\ \E k \in 1..Len(attempts[1]) : IsData(attempts[1][k])
    /\ \E k \in 1..Len(attempts[2]) : IsData(attempts[2][k])
    /\ Len(dest) = 2

\* ------------------------------------------------------------------------
\* Properties of the run log (SpecRetry)

\* C21: the run log is written once per invocation. Every invocation of
\* download_period_from_area that has returned, the one with no sensor in
\* range included, has written exactly one document with save_logs.
C21_LogWrittenOnce ==
    orch_pc = "done" => Len(log_files) = 1

\* The fetch most recently made by the run
LastAttempt == attempts[Len(attempts)][Len(attempts[Len(attempts)])]

\* C22: only misuse raises. A run started with its inputs loaded never leaves
\* download_period_from_area with an exception because of a failure of a
\* fetch or of the staging and merge: the merge stage never raises, and the
\* fetch stage is only left by an interrupt.
C22_OnlyMisuseRaises ==
    /\ orch_pc # "raised"
    /\ orch_pc = "fetch_raised" => LastAttempt.outcome \in Interrupts

\* ------------------------------------------------------------------------
\* Properties of the records of each depth (SpecRetry)

\* C23: per-depth status. When the run has returned, the record of every
\* depth has status "downloaded" iff its errors are empty, "retrying" iff it
\* has errors and retries < max_retries, "aborted" iff it has errors and
\* retries >= max_retries; and the next depth was called iff the status is
\* "retrying".
C23_DepthStatus ==
    RootReturned =>
        LET logs == ret[1].logs
        IN  /\ Len(attempts) = Len(logs)
            /\ \A d \in 1..Len(logs) :
                  /\ logs[d].retries = d - 1
                  /\ logs[d].status = "downloaded" <=> logs[d].errors = << >>
                  /\ logs[d].status = "retrying" <=>
                        (logs[d].errors # << >> /\ logs[d].retries < max_retries)
                  /\ logs[d].status = "aborted" <=>
                        (logs[d].errors # << >> /\ logs[d].retries >= max_retries)
                  /\ d < Len(logs) <=> logs[d].status = "retrying"

C23_Witness ==
    /\ RootReturned
    /\ max_retries = 2
    /\ Len(ret[1].logs) = 3
    /\ ret[1].logs[1].status = "retrying"
    /\ ret[1].logs[2].status = "retrying"
    /\ ret[1].logs[3].status = "aborted"

\* C24: penultimate-depth flip. When the run has returned, the record of a
\* depth that had errors, with retries < max_retries and retries + 1 >=
\* max_retries, has status "aborted".
C24_PenultimateFlip ==
    RootReturned =>
        LET logs == ret[1].logs
        IN  \A d \in 1..Len(logs) :
                (/\ logs[d].errors # << >>
                 /\ logs[d].retries < max_retries
                 /\ logs[d].retries + 1 >= max_retries) =>
                    logs[d].status = "aborted"

\* The sensors_id given to the invocation of depth d
InputList(d) ==
    IF d = 1 THEN sensors_arg
    ELSE AttemptSensors(FailedAttempts(attempts[d - 1]))

\* C25: ordering and shrinking retry set. At every depth the sensors are
\* fetched in the order of that depth's list; the list of the next depth is
\* the sensors whose fetch failed at this depth, in the same order; a sensor
\* whose fetch did not fail is not fetched again at any deeper depth.
C25_OrderedShrinkingRetries ==
    \A d \in 1..Len(attempts) :
        /\ Len(attempts[d]) <= Len(InputList(d))
        /\ AttemptSensors(attempts[d]) = SubSeq(InputList(d), 1, Len(attempts[d]))
        /\ Range(InputList(d)) \subseteq Range(sensors_arg)
        /\ d > 1 => Range(InputList(d)) \subseteq Range(InputList(d - 1))
        /\ d <= Len(stack) => stack[d].sensors_id = InputList(d)
        /\ \A k \in 1..Len(attempts[d]) :
              NotFailed(attempts[d][k]) =>
                  \A e \in (d + 1)..Len(attempts) : \A j \in 1..Len(attempts[e]) :
                      attempts[e][j].sensor_id # attempts[d][k].sensor_id

C25_Witness ==
    /\ RootReturned
    /\ sensors_arg = <<3, 1, 2>>
    /\ Len(attempts) = 3
    /\ AttemptSensors(attempts[1]) = <<3, 1, 2>>
    /\ AttemptSensors(attempts[2]) = <<3, 2>>
    /\ AttemptSensors(attempts[3]) = <<2>>

\* The sensors named by the errors of depth d, while the depth is running
\* and once the run has returned
ErrorsOfDepth(d) ==
    (IF d <= Len(stack) THEN Range(ErrorSensors(stack[d].errors)) ELSE {})
    \cup (IF RootReturned /\ d <= Len(ret[1].logs)
          THEN Range(ErrorSensors(ret[1].logs[d].errors)) ELSE {})

\* C26: found = 0 is a terminal case. A sensor whose fetch returned no record
\* (found = 0 on the first page) is not put in the errors of that depth, nor
\* of a deeper one, and is not fetched at any deeper depth.
C26_EmptyIsTerminal ==
    \A d \in 1..Len(attempts) : \A k \in 1..Len(attempts[d]) :
        attempts[d][k].outcome = "empty" =>
            \A e \in d..Len(attempts) :
                /\ attempts[d][k].sensor_id \notin ErrorsOfDepth(e)
                /\ e > d => attempts[d][k].sensor_id \notin Range(AttemptSensors(attempts[e]))

\* A run with a retry depth, in which a sensor had no record at depth 0
C26_Witness ==
    /\ RootReturned
    /\ Len(sensors_arg) = 3
    /\ Len(attempts) = 2
    /\ attempts[1][2].outcome = "empty"
    /\ Failed(attempts[1][1])
    /\ Failed(attempts[1][3])
    /\ Len(attempts[2]) = 2

\* ------------------------------------------------------------------------
\* Properties of the fetched result (SpecFetch)

\* C27: a fetch that has returned holds as many records as the found value
\* of its first page, whatever pages the server sent.
C27_ResultSizeIsFound ==
    fetch_pc = "returned" => Len(fetch_return) = found_value

\* Number of records the server holds on the pages requested so far
RequestedRecords ==
    SumSeq([r \in 1..Len(requests) |-> Len(ServerPage(srv_pages, requests[r].page))])

\* The request of this step is answered with a page without records while
\* fewer records than found have been collected
SparsePage ==
    /\ FetchPage
    /\ ServerPage(srv_pages, page) = << >>
    /\ Len(all_results) < found_value'

\* C28: sparse pages. A page without records received while the running total
\* is below found does not end the fetch and is no error: the next page is
\* requested, what was collected is kept, and a fetch that has returned holds
\* the records of every page it requested, those after an empty page included.
C28_SparsePages ==
    /\ []((fetch_pc = "returned" /\ found_value > 0) =>
              Len(fetch_return) = RequestedRecords)
    /\ [][SparsePage =>
             /\ fetch_pc' = "loop"
             /\ page' = page + 1
             /\ all_results' = all_results]_vars

\* A fetch that met an empty page between two pages with records
C28_Witness ==
    /\ fetch_pc = "returned"
    /\ srv_pages = <<1, 0, 2>>
    /\ srv_found = 3
    /\ Len(requests) = 3
    /\ Len(fetch_return) = 3

\* ------------------------------------------------------------------------
\* Properties of the rate-limit state (SpecClient)

\* The value the state takes from a header: the header's number, 0 when the
\* response does not carry the header
HeaderValue(h) == IF h = NoHeader THEN 0 ELSE h[1]

\* C29: after a call whose response was a 2xx, ratelimit_used,
\* ratelimit_remaining and ratelimit_reset are the values of the X-Ratelimit-Used,
\* X-Ratelimit-Remaining and X-Ratelimit-Reset headers of that response (0 for
\* a header the response does not carry), whatever they were before the call.
C29_StateFromHeaders ==
    [][(RequestApi /\ call_headers' # << >>) =>
           /\ ratelimit_used' = HeaderValue(call_headers'[1])
           /\ ratelimit_remaining' = HeaderValue(call_headers'[2])
           /\ ratelimit_reset' = HeaderValue(call_headers'[3])]_vars

\* A successful call made with a low remaining quota and answered with all
\* three headers
C29_Witness ==
    /\ call_result = "ok"
    /\ call_state = [used |-> 57, remaining |-> 3, reset |-> 7]
    /\ call_headers = << <<1>>, <<10>>, <<7>> >>
    /\ ratelimit_remaining = 10

\* C30: after a pre-emptive wait the HTTP request is made with the rate-limit
\* state at the assumed fresh quota (used = 0, remaining = 60, reset = 60);
\* and no HTTP request of any call is made while 0 <= ratelimit_remaining < 5.
C30_NoRequestWhenLow ==
    \A k \in 1..Len(call_trace) :
        IsHttp(call_trace[k]) =>
            /\ ~(call_trace[k].remaining >= 0 /\ call_trace[k].remaining < 5)
            /\ (k > 1 /\ call_trace[k - 1].op = "sleep") =>
                  /\ call_trace[k].used = 0
                  /\ call_trace[k].remaining = 60
                  /\ call_trace[k].reset = 60

\* A call entered with remaining = 4 whose request failed without a response:
\* the state is left at the fresh quota
C30_Witness ==
    /\ call_result = "ConnectionError"
    /\ call_state.remaining = 4
    /\ Len(call_trace) = 2
    /\ call_trace[2] = [op |-> "http", used |-> 0, remaining |-> 60, reset |-> 60]
    /\ ratelimit_remaining = 60

\* ------------------------------------------------------------------------
\* Determinism of download_data_with_retries (SpecRetry)

\* The outcomes of all the fetches of the run, in the order they were made
RECURSIVE FlatOutcomes(_)
FlatOutcomes(passes) ==
    IF passes = << >> THEN << >>
    ELSE AttemptOutcomes(passes[1]) \o FlatOutcomes(Tail(passes))

\* saved and errors of a pass over `list` whose fetches ended as `pass`
RECURSIVE ReplaySaved(_, _)
ReplaySaved(list, pass) ==
    IF list = << >> THEN << >>
    ELSE (IF pass[1] = "data" THEN << BlobName(FetchRun, list[1]) >> ELSE << >>)
         \o ReplaySaved(Tail(list), Tail(pass))

RECURSIVE ReplayErrors(_, _)
ReplayErrors(list, pass) ==
    IF list = << >> THEN << >>
    ELSE (IF pass[1] \in ErrorOutcomes
          THEN << [sensor_id |-> list[1], type |-> pass[1]] >> ELSE << >>)
         \o ReplayErrors(Tail(list), Tail(pass))

\* The records of every depth as a function of the list, retries, max_retries
\* and the outcomes of the fetches still to come
RECURSIVE Replay(_, _, _, _)
Replay(list, retries, max, outcomes) ==
    LET pass == SubSeq(outcomes, 1, Len(list))
        rest == SubSeq(outcomes, Len(list) + 1, Len(outcomes))
        errors == ReplayErrors(list, pass)
        status == IF errors = << >> THEN "downloaded"
                  ELSE IF retries >= max THEN "aborted" ELSE "retrying"
        record == [status |-> status, saved |-> ReplaySaved(list, pass),
                   errors |-> errors, retries |-> retries]
    IN  IF status = "retrying"
        THEN <<record>> \o Replay(ErrorSensors(errors), retries + 1, max, rest)
        ELSE <<record>>

\* C31: determinism. The number of depths, the saved, errors and status of
\* every depth and the status of the root summary are a function of the
\* sensor list, max_retries and the sequence of outcomes of the fetches: two
\* runs that agree on these three return the same.
C31_Deterministic ==
    RootReturned =>
        LET logs == Replay(sensors_arg, 0, max_retries, FlatOutcomes(attempts))
        IN  /\ ret[1].logs = logs
            /\ ret[1].status = IF logs[Len(logs)].status = "aborted"
                               THEN "aborted" ELSE "downloaded"

C31_Witness ==
    /\ RootReturned
    /\ Len(sensors_arg) = 2
    /\ max_retries = 2
    /\ FlatOutcomes(attempts) = <<"Exception", "data", "HTTPError429", "data">>
    /\ Len(ret[1].logs) = 3
    /\ ret[1].status = "downloaded"

\* ------------------------------------------------------------------------
\* Frame of a failed request (SpecClient)

\* The HTTP request of the call that this step makes
IssuedRequest == SelectSeq(call_trace', IsHttp)[1]

\* C32: a request that ends in an error (an HTTP error status, 429 included,
\* or a transport failure) leaves ratelimit_used, ratelimit_remaining and
\* ratelimit_reset as they were when the HTTP request was issued.
C32_ErrorKeepsState ==
    [][(RequestApi /\ call_result' \in {"HTTPError429", "HTTPError500", "ConnectionError"}) =>
           /\ ratelimit_used' = IssuedRequest.used
           /\ ratelimit_remaining' = IssuedRequest.remaining
           /\ ratelimit_reset' = IssuedRequest.reset]_vars

\* A call made with known rate limits was answered with HTTP 500
C32_Witness ==
    /\ call_result = "HTTPError500"
    /\ call_state = [used |-> 57, remaining |-> 10, reset |-> 7]
    /\ ratelimit_used = 57
    /\ ratelimit_remaining = 10
    /\ ratelimit_reset = 7

\* ------------------------------------------------------------------------
\* Frame of the merge (SpecMerge)

\* What a step may do to the rows the destination already holds
MergeFrame(target, staged, result) ==
    /\ Len(result) >= Len(target)
    /\ \A i \in 1..Len(target) :
          /\ \A col \in merge_keys \cup {"ingested_at"} : result[i][col] = target[i][col]
          /\ result[i].updated_at # target[i].updated_at =>
                \E j \in 1..Len(staged) :
                    /\ KeyPresent(target[i], staged[j])
                    /\ \E col \in data_columns : staged[j][col] # target[i][col]
          /\ (\A j \in 1..Len(staged) : ~KeyPresent(target[i], staged[j])) =>
                result[i] = target[i]

\* C33: merge frame. No step changes the merge-key columns or ingested_at of
\* a row the destination holds, or deletes such a row; updated_at of such a
\* row changes only when a staged row with its key differs in a data column;
\* a row whose key is not staged is left as it is.
C33_MergeFrame ==
    [][MergeFrame(dest, load_bucket_to_bq(bucket), dest')]_vars

\* A merge at a later time changed one of two rows and had nothing staged
\* for the other
C33_Witness ==
    /\ upsert_result = "returned"
    /\ bucket = EmptyBucket
    /\ clock = 2
    /\ Len(dest) = 2
    /\ Len(last_staged[1]) = 1
    /\ \E i, j \in 1..Len(dest) :
          /\ dest[i].refreshed_at = 1
          /\ dest[j].ingested_at = 1
          /\ dest[j].updated_at = 2

\* C34: destination key uniqueness. The destination, empty at first, never
\* holds two rows with the same (non-NULL) merge key, whatever was staged and
\* merged.
C34_DestinationKeysUnique ==
    \A i, j \in 1..Len(dest) : i # j => ~KeyPresent(dest[i], dest[j])

\* ------------------------------------------------------------------------
\* Shape of the returned logs (SpecRetry)

\* C35: chain shape. In the summary a run returns, the records are in depth
\* order (the record at position d was made with retries = d - 1), every
\* record but the last has status "retrying", the last has status
\* "downloaded" or "aborted", and the retries of the summary is the number of
\* records minus one.
C35_ChainShape ==
    RootReturned =>
        LET logs == ret[1].logs
        IN  /\ Len(logs) >= 1
            /\ \A d \in 1..Len(logs) :
                  /\ logs[d].retries = d - 1
                  /\ ErrorSensors(logs[d].errors) = AttemptSensors(FailedAttempts(attempts[d]))
                  /\ d < Len(logs) => logs[d].status = "retrying"
            /\ logs[Len(logs)].status \in {"downloaded", "aborted"}
            /\ ret[1].retries = Len(logs) - 1

C35_Witness ==
    /\ RootReturned
    /\ Len(ret[1].logs) = 3
    /\ ret[1].logs[3].status = "downloaded"
    /\ ret[1].retries = 2
    /\ Len(sensors_arg) = 3

\* The sensors named by the saved file names of a record
SavedSensors(record) == {b[2] : b \in Range(record.saved)}

\* C36: entity accounting. In every record of a returned run no sensor is in
\* both saved and errors; a sensor of the depth's list is in saved iff its
\* fetch returned at least one record, in errors iff its fetch raised, in
\* neither iff its fetch returned no record; and over all the records a
\* sensor is in saved at most once.
C36_EntityAccounting ==
    RootReturned =>
        LET logs == ret[1].logs
        IN  \A d \in 1..Len(logs) :
                /\ SavedSensors(logs[d]) \cap Range(ErrorSensors(logs[d].errors)) = {}
                /\ Cardinality(SavedSensors(logs[d])) = Len(logs[d].saved)
                /\ \A e \in 1..Len(logs) :
                      e # d => SavedSensors(logs[d]) \cap SavedSensors(logs[e]) = {}
                /\ \A k \in 1..Len(attempts[d]) :
                      LET a == attempts[d][k]
                      IN  /\ a.sensor_id \in SavedSensors(logs[d]) <=> a.outcome = "data"
                          /\ a.sensor_id \in Range(ErrorSensors(logs[d].errors))
                                <=> a.outcome \in ErrorOutcomes
                          /\ a.outcome = "empty" <=>
                                /\ a.sensor_id \notin SavedSensors(logs[d])
                                /\ a.sensor_id \notin Range(ErrorSensors(logs[d].errors))

\* A pass with one sensor of each kind, and a retry that saved the failed one
C36_Witness ==
    /\ RootReturned
    /\ Len(attempts) = 2
    /\ AttemptOutcomes(attempts[1]) = <<"data", "empty", "Exception">>
    /\ AttemptOutcomes(attempts[2]) = <<"data">>
    /\ Len(ret[1].logs[1].saved) = 1
    /\ Len(ret[1].logs[2].saved) = 1

\* ------------------------------------------------------------------------
\* Staging of a fetched sensor (SpecFetch)

FetchBlob == BlobName(FetchRun, fetch_sensor)

\* C37: no partial entity is staged. The staging bucket changes only in the
\* step that ends the pagination loop without error, and then the artifact of
\* (run_id, sensor) is the whole returned result, replacing any artifact of
\* that name; a fetch that raises stages nothing; every fetch, a retry
\* included, starts with nothing collected and asks for page 1 first.
C37_NoPartialStaging ==
    /\ [](requests # << >> => requests[1].page = 1)
    /\ [](DOMAIN bucket \subseteq {FetchBlob})
    /\ [][/\ bucket' # bucket =>
                /\ fetch_pc = "loop"
                /\ fetch_pc' = "returned"
                /\ fetch_return' # << >>
                /\ Len(fetch_return') = Len(all_results')
                /\ bucket' = [n \in {FetchBlob} |-> clean_dataframe(fetch_return', clock)]
          /\ fetch_pc' = "raised" => bucket' = bucket
          /\ (fetch_pc # "loop" /\ fetch_pc' = "loop") =>
                /\ page' = 1
                /\ all_results' = << >>
                /\ requests' = << >>]_vars

\* A sensor fetched again at a later time: its artifact is the new result
C37_Witness ==
    /\ fetch_pc = "returned"
    /\ clock = 2
    /\ Len(requests) = 2
    /\ FetchBlob \in DOMAIN bucket
    /\ Len(bucket[FetchBlob]) = 3
    /\ \A i \in 1..3 : bucket[FetchBlob][i].ingested_at = 2


\* C38: within one sequential run a staged artifact leaves the staging bucket
\* only in the step in which upsert_data returned, and that merge loaded the
\* artifact (its rows are the staged relation and are present in the
\* destination afterwards); when the load or the merge query raises, the
\* staged artifacts, the staging table and the destination are left as they were.
C38_DeleteOnlyAfterMerge ==
    [][/\ (DOMAIN bucket \ DOMAIN bucket' # {}) =>
              /\ orch_pc = "period"
              /\ orch_pc' = "done"
              /\ upsert_result' = "returned"
              /\ last_staged' = <<load_bucket_to_bq(bucket)>>
              /\ dest' = MergeQuery(dest, load_bucket_to_bq(bucket))
              /\ \A name \in DOMAIN bucket : \A i \in 1..Len(bucket[name]) :
                    \E j \in 1..Len(last_staged'[1]) : last_staged'[1][j] = bucket[name][i]
       /\ (orch_pc = "period" /\ orch_pc' = "raised") =>
              /\ upsert_result' = "raised"
              /\ bucket' = bucket
              /\ staging_exists'
              /\ dest' = dest]_vars

C38_Witness ==
    /\ orch_pc = "raised"
    /\ upsert_result = "raised"
    /\ Cardinality(DOMAIN bucket) = 2
    /\ staging_exists
    /\ dest = << >>


\* C39: within one fetch of one sensor the r-th request asks for page r (so the
\* pages are 1, 2, 3, ... with no gap and no repeat), and every request, at
\* whatever retry depth the fetch is made, carries the datetime_from and
\* datetime_to of the top-level call and the limit 1000.
C39_RequestSequence ==
    /\ PAGE_LIMIT = 1000
    /\ \A r \in 1..Len(requests) :
          requests[r] = [datetime_from |-> datetime_from, datetime_to |-> datetime_to,
                         limit |-> 1000, page |-> r]
    /\ fetch_pc = "loop" => page = Len(requests) + 1

\* C39 witness: a fetch made two retries deep has requested three pages of a
\* period whose bounds differ.
C39_Witness ==
    /\ fetch_args.retries = 2
    /\ datetime_from # datetime_to
    /\ Len(requests) = 3
    /\ requests[3].page = 3
    /\ fetch_pc = "returned"

====
